---- MODULE Spec2Model ----
(***************************************************************************)
(* A model of the HYSA scraper (src/scraper/scrape_hysa.py): the three     *)
(* scraping tiers, the link resolver, the fact check and the save; and of  *)
(* the bounded-time LLM call of src/forecast_api.py.                       *)
(*                                                                         *)
(* Text is modelled as a sequence of one-character strings, so the         *)
(* regular expressions and string methods of the source are computed       *)
(* character by character.  The two non-ASCII characters of the source,    *)
(* the bullet and the middle dot, are written "U+2022" and "U+00B7"; any   *)
(* other character that is not ASCII is written "NONASCII".                *)
(***************************************************************************)
EXTENDS Integers, Sequences, FiniteSets, TLC

VARIABLES
    nraw,      \* normaliser harness: the raw fragment handed to normalise_institution
    nout,      \* normaliser harness: normalise_institution(nraw)
    nout2,     \* normaliser harness: normalise_institution(nout)
    npc,       \* normaliser harness: position ("raw", "once", "twice", "off")
    hurl,      \* host-match harness: the URL handed to host_matches_institution
    hinst,     \* host-match harness: the institution handed to it
    hres,      \* host-match harness: its result
    hpc,       \* host-match harness: position ("args", "done", "off")
    pc,        \* run(): the position of the pipeline run
    gemini_key,\* run(): whether GEMINI_API_KEY is set
    accounts,  \* scrape_accounts: the accounts list of the extraction response
    records,   \* the list of AccountRecord the run works on
    tiers,     \* the extraction tiers attempted so far, in order
    yields,    \* the number of records each attempted tier ended with
    error,     \* the message of the exception that ended the run, or NoError
    output,    \* the output file: whether save_records wrote it, and the list written
    ri,        \* the index of the record the resolver or the fact-check is at
    outcomes,  \* per record, how its LLM call ended ("none" before the call)
    visits,    \* per record, what the resolver met: the link it had, the page shown
    scraped,   \* the (institution, apy) of the records scrape_accounts returned
    configured,\* fact_check_accounts: whether configure(api_key=...) was called
    skey,      \* get_gemini_summary: whether GEMINI_API_KEY is set
    sllm,      \* get_gemini_summary: what model.generate_content will do
    spc,       \* get_gemini_summary: the position of the caller
    wpc,       \* get_gemini_summary: the position of the worker thread
    sresult,   \* get_gemini_summary: result.get('text'), None while unset
    sret,      \* get_gemini_summary: the value returned, None before the return
    sjoin,     \* how t.join ended ("finished", "elapsed"), "unknown" before
    salive     \* what t.is_alive() answered ("alive", "dead"), "unknown" before

normVars == <<nraw, nout, nout2, npc>>
hostVars == <<hurl, hinst, hres, hpc>>
sumVars == <<skey, sllm, spc, wpc, sresult, sret, sjoin, salive>>
runVars == <<pc, gemini_key, accounts, records, tiers, yields, error, output, ri, outcomes,
             visits, scraped, configured>>
vars == <<nraw, nout, nout2, npc, hurl, hinst, hres, hpc,
          pc, gemini_key, accounts, records, tiers, yields, error, output, ri, outcomes,
          visits, scraped, configured,
          skey, sllm, spc, wpc, sresult, sret, sjoin, salive>>

----------------------------------------------------------------------------
(* Character classes and elementary string operations.                     *)

LowerLetters == <<"a","b","c","d","e","f","g","h","i","j","k","l","m","n","o","p","q","r","s","t","u","v","w","x","y","z">>
UpperLetters == <<"A","B","C","D","E","F","G","H","I","J","K","L","M","N","O","P","Q","R","S","T","U","V","W","X","Y","Z">>
Digits == {"0","1","2","3","4","5","6","7","8","9"}

Range(s) == {s[i] : i \in 1..Len(s)}

IsLower(c) == c \in Range(LowerLetters)
IsUpper(c) == c \in Range(UpperLetters)
IsAlpha(c) == IsLower(c) \/ IsUpper(c)
IsDigit(c) == c \in Digits

\* the whitespace characters of the model: \s of the re module, str.strip()
SpaceChars == {" ", "\t", "\n", "\r"}

IsSpace(c) == c \in SpaceChars

\* str.lower() on one character
LowerChar(c) ==
    IF IsUpper(c)
    THEN LowerLetters[CHOOSE i \in 1..26 : UpperLetters[i] = c]
    ELSE c

\* str.lower()
Lower(s) == [i \in 1..Len(s) |-> LowerChar(s[i])]

Take(s, n) == SubSeq(s, 1, IF n < Len(s) THEN n ELSE Len(s))
Drop(s, n) == SubSeq(s, n + 1, Len(s))

\* s[i:].startswith(p), i counted from 1
MatchAt(s, p, i) ==
    /\ i >= 1
    /\ i + Len(p) - 1 <= Len(s)
    /\ SubSeq(s, i, i + Len(p) - 1) = p

\* s.startswith(p)
StartsWith(s, p) == MatchAt(s, p, 1)

\* s.endswith(p)
EndsWith(s, p) == MatchAt(s, p, Len(s) - Len(p) + 1)

\* p in s
Contains(s, p) == \E i \in 1..(Len(s) - Len(p) + 1) : MatchAt(s, p, i)

\* the least index >= from whose character is in cs, or 0
FirstIn(s, cs, from) ==
    IF \E j \in from..Len(s) : s[j] \in cs
    THEN CHOOSE j \in from..Len(s) : s[j] \in cs /\ \A k \in from..(j - 1) : s[k] \notin cs
    ELSE 0

\* the least index >= from whose character is not in cs, or Len(s) + 1
FirstNotIn(s, cs, from) ==
    IF \E j \in from..Len(s) : s[j] \notin cs
    THEN CHOOSE j \in from..Len(s) : s[j] \notin cs /\ \A k \in from..(j - 1) : s[k] \in cs
    ELSE Len(s) + 1

\* s.lstrip(cs)
LStrip(s, cs) == Drop(s, FirstNotIn(s, cs, 1) - 1)

RECURSIVE RStrip(_, _)
\* s.rstrip(cs)
RStrip(s, cs) ==
    IF s # <<>> /\ s[Len(s)] \in cs THEN RStrip(Take(s, Len(s) - 1), cs) ELSE s

\* s.strip(cs)
Strip(s, cs) == RStrip(LStrip(s, cs), cs)

RECURSIVE Concat(_)
\* "".join(parts)
Concat(parts) == IF parts = <<>> THEN <<>> ELSE Head(parts) \o Concat(Tail(parts))

\* s.strip(): whitespace on both ends
StripSpace(s) == Strip(s, SpaceChars)

----------------------------------------------------------------------------
(* The text normaliser: clean_text and normalise_institution.              *)

\* html.unescape's entity table, restricted to the names the model's
\* characters can spell; a name without ";" is one HTML5 accepts unterminated
EntityNames ==
    { <<"a","m","p",";">>, <<"a","m","p">>,
      <<"l","t",";">>, <<"l","t">>,
      <<"g","t",";">>, <<"g","t">>,
      <<"b","u","l","l",";">>,
      <<"m","i","d","d","o","t",";">>, <<"m","i","d","d","o","t">> }

EntityChar(name) ==
    CASE Take(name, 2) = <<"a","m">> -> "&"
      [] Take(name, 2) = <<"l","t">> -> "<"
      [] Take(name, 2) = <<"g","t">> -> ">"
      [] Take(name, 2) = <<"b","u">> -> "U+2022"
      [] OTHER -> "U+00B7"

\* the characters that end an entity name in html.unescape's pattern
\* &(...|[^\t\n\f <&#;]{1,32};?)
EntityStop == {"\t", "\n", " ", "<", "&", "#", ";"}

\* html._replace_charref for a named reference s (the text after "&")
ReplaceCharref(s) ==
    IF s \in EntityNames
    THEN <<EntityChar(s)>>
    ELSE LET xs == {x \in 2..(Len(s) - 1) : Take(s, x) \in EntityNames}
         IN  IF xs # {}
             THEN LET x == CHOOSE y \in xs : \A z \in xs : z <= y
                  IN  <<EntityChar(Take(s, x))>> \o Drop(s, x)
             ELSE <<"&">> \o s

RECURSIVE HtmlUnescape(_)
\* html.unescape: one left-to-right pass, replacements are not rescanned
HtmlUnescape(s) ==
    IF s = <<>> THEN <<>>
    ELSE IF Head(s) # "&" THEN <<Head(s)>> \o HtmlUnescape(Tail(s))
    ELSE LET rest == Tail(s)
             stop == FirstIn(rest, EntityStop, 1)
             run  == IF stop = 0 THEN Len(rest) ELSE stop - 1
             n    == IF run > 32 THEN 32 ELSE run
             m    == IF n < Len(rest) /\ rest[n + 1] = ";" THEN n + 1 ELSE n
         IN  IF n = 0
             THEN <<"&">> \o HtmlUnescape(rest)
             ELSE ReplaceCharref(Take(rest, m)) \o HtmlUnescape(Drop(rest, m))

\* the end index of a match of \[X\]\([^)]*\) whose "[" is at i, where X is
\* [^\]]* (minInner = 0) or [^\]]+ (minInner = 1); 0 when there is no match
BracketEnd(s, i, minInner) ==
    LET j == FirstIn(s, {"]"}, i + 1)
        k == IF j = 0 THEN 0 ELSE FirstIn(s, {")"}, j + 2)
    IN  IF /\ i <= Len(s) /\ s[i] = "["
           /\ j # 0 /\ j - i - 1 >= minInner
           /\ j + 1 <= Len(s) /\ s[j + 1] = "("
           /\ k # 0
        THEN k
        ELSE 0

RECURSIVE SubMarkdownImage(_)
\* MARKDOWN_IMAGE_RE.sub("", text)
SubMarkdownImage(s) ==
    IF s = <<>> THEN <<>>
    ELSE LET k == IF Head(s) = "!" THEN BracketEnd(s, 2, 0) ELSE 0
         IN  IF k # 0 THEN SubMarkdownImage(Drop(s, k))
             ELSE <<Head(s)>> \o SubMarkdownImage(Tail(s))

DataImage == <<"d","a","t","a",":","i","m","a","g","e">>

RECURSIVE SubDataUri(_)
\* DATA_URI_RE.sub("", text), case-insensitive
SubDataUri(s) ==
    IF s = <<>> THEN <<>>
    ELSE LET k == IF MatchAt(Lower(s), DataImage, 1) THEN FirstIn(s, {")"}, 11) ELSE 0
         IN  IF k >= 12 THEN SubDataUri(Drop(s, k))
             ELSE <<Head(s)>> \o SubDataUri(Tail(s))

RECURSIVE SubMarkdownLink(_)
\* MARKDOWN_LINK_RE.sub(r"\1", text)
SubMarkdownLink(s) ==
    IF s = <<>> THEN <<>>
    ELSE LET k == BracketEnd(s, 1, 1)
         IN  IF k # 0
             THEN SubSeq(s, 2, FirstIn(s, {"]"}, 2) - 1) \o SubMarkdownLink(Drop(s, k))
             ELSE <<Head(s)>> \o SubMarkdownLink(Tail(s))

BulletChars == {"-", "*", "U+2022", "U+00B7"}

\* BULLET_PREFIX_RE.sub("", text): the pattern is anchored at the start
SubBulletPrefix(s) ==
    LET b == FirstNotIn(s, BulletChars, 1)
    IN  IF b = 1 THEN s
        ELSE Drop(s, FirstNotIn(s, SpaceChars, b) - 1)

\* text.replace("U+2022", " ").replace("U+00B7", " ")
ReplaceBullets(s) == [i \in 1..Len(s) |-> IF s[i] \in {"U+2022", "U+00B7"} THEN " " ELSE s[i]]

RECURSIVE SubWhitespace(_)
\* WHITESPACE_RE.sub(" ", text)
SubWhitespace(s) ==
    IF s = <<>> THEN <<>>
    ELSE IF IsSpace(Head(s))
         THEN <<" ">> \o SubWhitespace(Drop(s, FirstNotIn(s, SpaceChars, 1) - 1))
         ELSE <<Head(s)>> \o SubWhitespace(Tail(s))

clean_text(raw) ==
    IF raw = <<>> THEN <<>>
    ELSE Strip(SubWhitespace(ReplaceBullets(SubBulletPrefix(SubMarkdownLink(
             SubDataUri(SubMarkdownImage(HtmlUnescape(raw))))))), {" ", "-"})

EXACT_NOISE ==
    { <<"u","s","a">>,
      <<"u","n","i","t","e","d"," ","s","t","a","t","e","s">>,
      <<"u","n","i","t","e","d"," ","s","t","a","t","e","s"," ","f","l","a","g">>,
      <<"u","n","i","t","e","d"," ","k","i","n","g","d","o","m">>,
      <<"u","n","i","t","e","d"," ","k","i","n","g","d","o","m"," ","f","l","a","g">>,
      <<"i","n","s","t","a","g","r","a","m">>,
      <<"a","p","p","l","e"," ","p","o","d","c","a","s","t","s">>,
      <<"f","a","c","e","b","o","o","k">>,
      <<"t","w","i","t","t","e","r">>,
      <<"y","o","u","t","u","b","e">> }

\* the alternatives of NOISE_REGEX that are plain text
NoiseWords ==
    { <<"f","l","a","g">>,
      <<"i","n","s","t","a","g","r","a","m">>,
      <<"y","o","u","t","u","b","e">>,
      <<"f","a","c","e","b","o","o","k">>,
      <<"t","w","i","t","t","e","r">>,
      <<"u","s","a"," ","o","n","l","y">>,
      <<"r","s","s"," ","f","e","e","d">>,
      <<"p","r","i","v","a","c","y">>,
      <<"c","o","o","k","i","e">> }

\* the alternatives of NOISE_REGEX of the form first\s+second
NoisePairs ==
    { << <<"a","p","p","l","e">>, <<"p","o","d","c","a","s","t","s">> >>,
      << <<"u","n","i","t","e","d">>, <<"s","t","a","t","e","s">> >>,
      << <<"u","n","i","t","e","d">>, <<"k","i","n","g","d","o","m">> >> }

\* first\s+second found somewhere in s
PairSearch(s, first, second) ==
    \E i \in 1..Len(s) :
        /\ MatchAt(s, first, i)
        /\ LET a == i + Len(first)
               b == FirstNotIn(s, SpaceChars, a)
           IN  b > a /\ MatchAt(s, second, b)

\* NOISE_REGEX.search(s); in "x.com" the dot stands for any character but a newline
NoiseSearch(s) ==
    \/ \E w \in NoiseWords : Contains(s, w)
    \/ \E p \in NoisePairs : PairSearch(s, p[1], p[2])
    \/ \E i \in 1..(Len(s) - 4) :
          /\ s[i] = "x" /\ s[i + 1] # "\n"
          /\ MatchAt(s, <<"c","o","m">>, i + 2)

\* MIN_ALPHA_RE.search(s)
MinAlphaSearch(s) ==
    \E i \in 1..(Len(s) - 2) : IsAlpha(s[i]) /\ IsAlpha(s[i + 1]) /\ IsAlpha(s[i + 2])

\* the longest institution name normalise_institution accepts
MaxInstitutionLen == 120

\* normalise_institution's tests of the cleaned text
FilterInstitution(text) ==
    IF text = <<>> THEN <<>>
    ELSE IF Lower(text) \in EXACT_NOISE THEN <<>>
    ELSE IF NoiseSearch(Lower(text)) THEN <<>>
    ELSE IF ~MinAlphaSearch(text) THEN <<>>
    ELSE IF Len(text) > MaxInstitutionLen THEN <<>>
    ELSE text

normalise_institution(raw) == FilterInstitution(clean_text(raw))

----------------------------------------------------------------------------
(* URL parsing and the fuzzy host/institution match of the link resolver.  *)

\* the characters urllib.parse allows in a scheme
SchemeChars == Range(LowerLetters) \cup Range(UpperLetters) \cup Digits \cup {"+", "-", "."}

\* urlsplit first drops leading spaces and control characters, and every
\* tab, newline and carriage return
UrlClean(url) ==
    SelectSeq(LStrip(url, {" ", "\t", "\n", "\r", "CTL"}), LAMBDA c : c \notin {"\t", "\n", "\r"})

\* urlsplit: the length of the scheme of the cleaned url u, or 0 when it has none
SchemeLen(u) ==
    LET i == FirstIn(u, {":"}, 1)
    IN  IF i > 1 /\ IsAlpha(u[1]) /\ \A k \in 1..(i - 1) : u[k] \in SchemeChars
        THEN i - 1
        ELSE 0

\* urlsplit: the cleaned url without its scheme
DropScheme(u) == IF SchemeLen(u) > 0 THEN Drop(u, SchemeLen(u) + 1) ELSE u

UrlAfterScheme(url) == DropScheme(UrlClean(url))

\* urlparse(url).netloc
NetlocOf(rest) ==
    LET stop == FirstIn(rest, {"/", "?", "#"}, 3)
    IN  IF ~StartsWith(rest, <<"/","/">>) THEN <<>>
        ELSE IF stop = 0 THEN Drop(rest, 2)
        ELSE SubSeq(rest, 3, stop - 1)

UrlNetloc(url) == NetlocOf(UrlAfterScheme(url))

\* re.sub(r"[^a-z0-9]", "", text.lower())
canonicalize(text) ==
    SelectSeq(Lower(text), LAMBDA c : IsLower(c) \/ IsDigit(c))

StripWww(host) ==
    IF StartsWith(host, <<"w","w","w",".">>) THEN Drop(host, 4) ELSE host

host_from_url(url) == StripWww(Lower(UrlNetloc(url)))

RECURSIVE SplitOn(_, _)
\* s.split(sep) for a one-character sep
SplitOn(s, sep) ==
    LET i == FirstIn(s, {sep}, 1)
    IN  IF i = 0 THEN <<s>>
        ELSE <<Take(s, i - 1)>> \o SplitOn(Drop(s, i), sep)

RECURSIVE SplitNonAlnum(_)
\* re.split(r"[^a-z0-9]+", s): every run of characters other than a lowercase
\* letter or a digit separates two parts
SplitNonAlnum(s) ==
    LET keep == Range(LowerLetters) \cup Digits
        i    == FirstNotIn(s, keep, 1)
    IN  IF i > Len(s) THEN <<s>>
        ELSE <<Take(s, i - 1)>> \o SplitNonAlnum(Drop(s, FirstIn(s \o <<"a">>, keep, i) - 1))

\* the host labels host_matches_institution ignores
IgnoredHostParts == { <<"w","w","w">>, <<"c","o","m">>, <<"n","e","t">>, <<"o","r","g">> }

\* the length of the common run of a from i and b from j inside a[..ahi], b[..bhi]
RECURSIVE CommonRun(_, _, _, _, _, _)
CommonRun(a, b, i, j, ahi, bhi) ==
    IF i <= ahi /\ j <= bhi /\ a[i] = b[j]
    THEN 1 + CommonRun(a, b, i + 1, j + 1, ahi, bhi)
    ELSE 0

RECURSIVE MatchingChars(_, _, _, _, _, _)
\* the total size of difflib.SequenceMatcher.get_matching_blocks() over
\* a[alo..ahi] and b[blo..bhi]: the longest block (the earliest in a, then the
\* earliest in b), then the same to its left and to its right
MatchingChars(a, b, alo, ahi, blo, bhi) ==
    IF alo > ahi \/ blo > bhi THEN 0
    ELSE LET pairs == (alo..ahi) \X (blo..bhi)
             best  == CHOOSE p \in pairs :
                          \A q \in pairs :
                              LET kp == CommonRun(a, b, p[1], p[2], ahi, bhi)
                                  kq == CommonRun(a, b, q[1], q[2], ahi, bhi)
                              IN  \/ kp > kq
                                  \/ kp = kq /\ p[1] < q[1]
                                  \/ kp = kq /\ p[1] = q[1] /\ p[2] <= q[2]
             k     == CommonRun(a, b, best[1], best[2], ahi, bhi)
         IN  IF k = 0 THEN 0
             ELSE k + MatchingChars(a, b, alo, best[1] - 1, blo, best[2] - 1)
                    + MatchingChars(a, b, best[1] + k, ahi, best[2] + k, bhi)

\* difflib.SequenceMatcher(None, a, b).ratio() >= 0.45, as 2*M/T >= 45/100
RatioAtLeastThreshold(a, b) ==
    IF Len(a) + Len(b) = 0 THEN TRUE
    ELSE 200 * MatchingChars(a, b, 1, Len(a), 1, Len(b)) >= 45 * (Len(a) + Len(b))

\* canonicalize applied to every part of a list
CanonicalizeAll(parts) == [i \in 1..Len(parts) |-> canonicalize(parts[i])]

\* the tokens of the institution name: the name is split as it is written,
\* only the tokens are lowercased afterwards
InstTokens(institution) ==
    CanonicalizeAll(SelectSeq(SplitNonAlnum(institution), LAMBDA t : Len(t) >= 3))

HostParts(url) ==
    CanonicalizeAll(SelectSeq(SplitOn(host_from_url(url), "."),
                              LAMBDA p : p # <<>> /\ p \notin IgnoredHostParts))

\* host_matches_institution's tests of the host parts against the tokens
PartsMatch(host_parts, inst_tokens) ==
    IF host_parts = <<>> \/ inst_tokens = <<>> THEN FALSE
    ELSE IF \E t \in 1..Len(inst_tokens) :
                inst_tokens[t] # <<>> /\ Contains(Concat(host_parts), inst_tokens[t])
         THEN TRUE
    ELSE IF \E p \in 1..Len(host_parts) :
                /\ host_parts[p] # <<>>
                /\ \E t \in 1..Len(inst_tokens) :
                       \/ Contains(inst_tokens[t], host_parts[p])
                       \/ Contains(host_parts[p], inst_tokens[t])
         THEN TRUE
    ELSE RatioAtLeastThreshold(Concat(host_parts), Concat(inst_tokens))

host_matches_institution(url, institution) ==
    IF url = <<>> \/ institution = <<>> THEN FALSE
    ELSE PartsMatch(HostParts(url), InstTokens(institution))

----------------------------------------------------------------------------
(* The record model and the three extraction tiers.                        *)

\* Python's None, for an optional string
None == <<"None">>

\* a falsy optional string: None or ""
Falsy(x) == x = None \/ x = <<>>

\* the text of an optional string ("" for None)
TextOf(x) == IF x = None THEN <<>> ELSE x

\* AccountRecord(institution=..., apy=..., link=...): double_check and
\* fact_check_notes default to None
AccountRecord(institution, apy, link) ==
    [institution |-> institution, apy |-> apy, link |-> link,
     double_check |-> "None", fact_check_notes |-> None]

\* the weaker test that looks at the institution alone
ItemIsValidNoApy(institution, apy) == institution # <<>>
\* scrape_accounts keeps an item when neither field is empty
ItemIsValid(institution, apy) == institution # <<>> /\ apy # <<>>

\* the record scrape_accounts makes of one item of the accounts list
ItemRecord(item) ==
    AccountRecord(normalise_institution(TextOf(item.institution)),
                  clean_text(TextOf(item.apy)),
                  IF Falsy(item.link) THEN None ELSE StripSpace(item.link))

\* the loop of scrape_accounts over the accounts list
SchemaRecords(items) ==
    SelectSeq([i \in 1..Len(items) |-> ItemRecord(items[i])],
              LAMBDA r : ItemIsValid(r.institution, r.apy))

\* \w of the re module
IsWord(c) == IsAlpha(c) \/ IsDigit(c) \/ c = "_"

\* \b between s[i - 1] and s[i]
WordBoundary(s, i) ==
    (i > 1 /\ i - 1 <= Len(s) /\ IsWord(s[i - 1])) # (i >= 1 /\ i <= Len(s) /\ IsWord(s[i]))

\* k digits from s[i]
DigitsAt(s, i, k) == i + k - 1 <= Len(s) /\ \A t \in i..(i + k - 1) : IsDigit(s[t])

\* the end of the match of apy_re that starts at s[i] with nd integer digits,
\* nf fraction digits (0: no fraction) and, for tail = 1, the " APY" suffix;
\* 0 when that way of matching fails
ApyEndOf(s, i, nd, nf, tail) ==
    LET p == i + nd + (IF nf > 0 THEN 1 + nf ELSE 0)   \* where "%" must be
        w == FirstNotIn(s, SpaceChars, p + 1)   \* where "APY" must be
        e == IF tail = 1 THEN w + 2 ELSE p
    IN  IF /\ WordBoundary(s, i)
           /\ DigitsAt(s, i, nd)
           /\ (nf > 0 => i + nd <= Len(s) /\ s[i + nd] = "." /\ DigitsAt(s, i + nd + 1, nf))
           /\ p <= Len(s) /\ s[p] = "%"
           /\ (tail = 1 => MatchAt(Lower(s), <<"a","p","y">>, w))
           /\ WordBoundary(s, e + 1)
        THEN e
        ELSE 0

\* the end of the match of apy_re at s[i], or 0: the regex engine tries two
\* integer digits before one, the longest fraction first, the suffix first
ApyMatchEnd(s, i) ==
    LET ways == {w \in (1..2) \X (0..3) \X (0..1) : ApyEndOf(s, i, w[1], w[2], w[3]) # 0}
        rank(w) == (2 - w[1]) * 8 + (3 - w[2]) * 2 + (1 - w[3])
    IN  IF ways = {} THEN 0
        ELSE LET w == CHOOSE x \in ways : \A y \in ways : rank(x) <= rank(y)
             IN  ApyEndOf(s, i, w[1], w[2], w[3])

\* apy_re.search(s): the matched text, or None
ApySearch(s) ==
    LET starts == {i \in 1..Len(s) : ApyMatchEnd(s, i) # 0}
    IN  IF starts = {} THEN None
        ELSE LET i == CHOOSE x \in starts : \A y \in starts : x <= y
             IN  SubSeq(s, i, ApyMatchEnd(s, i))

\* re.search(r"\bAPY\b", s, re.I) is not None
HasApyToken(s) ==
    \E i \in 1..(Len(s) - 2) :
        /\ MatchAt(Lower(s), <<"a","p","y">>, i)
        /\ WordBoundary(s, i)
        /\ WordBoundary(s, i + 3)

\* how many heading tags find_bank_name examines
HeadingLimit == 5

\* how much of the container's text is searched for "APY"
ContextLimit == 400

\* how many lines above an APY line the markdown tier looks at
MarkdownWindow == 5

RECURSIVE FirstNonEmpty(_)
\* the first text of a list that is not empty, or None
FirstNonEmpty(texts) ==
    IF texts = <<>> THEN None
    ELSE IF Head(texts) # <<>> THEN Head(texts)
    ELSE FirstNonEmpty(Tail(texts))

\* find_bank_name: the first heading, among the first HeadingLimit, that
\* survives normalise_institution; None when there is none
find_bank_name(headings) ==
    FirstNonEmpty([i \in 1..(IF Len(headings) < HeadingLimit THEN Len(headings) ELSE HeadingLimit) |->
                      normalise_institution(headings[i])])

NerdwalletCom == <<"n","e","r","d","w","a","l","l","e","t",".","c","o","m">>

\* find_bank_link, an anchor being [href, text]
RECURSIVE BankLinkFrom(_, _)
BankLinkFrom(anchors, best) ==
    IF anchors = <<>> THEN best
    ELSE LET href == StripSpace(Head(anchors).href)
             txt  == Lower(StripSpace(Head(anchors).text))
         IN  IF ~StartsWith(href, <<"h","t","t","p">>) \/ Contains(href, NerdwalletCom)
             THEN BankLinkFrom(Tail(anchors), best)
             ELSE IF \/ Contains(txt, <<"s","a","v","i","n","g","s">>)
                     \/ Contains(txt, <<"h","i","g","h">>)
                     \/ Contains(txt, <<"a","p","y">>)
                     \/ Contains(txt, <<"r","a","t","e">>)
                     \/ Contains(href, <<"s","a","v","i","n","g","s">>)
                     \/ Contains(href, <<"h","i","g","h","-","y","i","e","l","d">>)
                     \/ Contains(href, <<"r","a","t","e">>)
                  THEN href
                  ELSE BankLinkFrom(Tail(anchors), IF Falsy(best) THEN href ELSE best)

find_bank_link(anchors) == BankLinkFrom(anchors, None)

\* container.get_text(" ", strip=True): the texts of the card joined by spaces
RECURSIVE JoinSpace(_)
JoinSpace(parts) ==
    IF parts = <<>> THEN <<>>
    ELSE IF Len(parts) = 1 THEN Head(parts)
    ELSE Head(parts) \o <<" ">> \o JoinSpace(Tail(parts))

\* the text of the card around a text node: its headings, the node, its anchors
ContainerText(node) ==
    JoinSpace(SelectSeq(
        [i \in 1..Len(node.headings) |-> StripSpace(node.headings[i])]
        \o <<StripSpace(node.text)>>
        \o [i \in 1..Len(node.anchors) |-> StripSpace(node.anchors[i].text)],
        LAMBDA t : t # <<>>))

\* the (institution, apy) keys of a list of records
KeysOf(recs) == {<<recs[i].institution, recs[i].apy>> : i \in 1..Len(recs)}

\* one round of the HTML tier's loop: the records after a text node whose
\* match is apy_text, whose card has the text context, the name bank ("" for
\* none) and the link link
WithCard(recs, apy_text, context, bank, link) ==
    IF apy_text = None \/ ~HasApyToken(context) THEN recs
    ELSE IF bank # <<>> /\ <<bank, apy_text>> \notin KeysOf(recs)
         THEN Append(recs, AccountRecord(bank, apy_text, link))
         ELSE recs

RECURSIVE HtmlRecords(_, _)
\* the HTML tier's loop over the text nodes that match apy_re; recs are the
\* records so far (seen holds exactly their keys)
HtmlRecords(nodes, recs) ==
    IF nodes = <<>> THEN recs
    ELSE HtmlRecords(Tail(nodes),
                     WithCard(recs,
                              ApySearch(Head(nodes).text),
                              Take(clean_text(ContainerText(Head(nodes))), ContextLimit),
                              TextOf(find_bank_name(Head(nodes).headings)),
                              find_bank_link(Head(nodes).anchors)))

RECURSIVE LastNonEmpty(_)
\* the last text of a list that is not empty, or ""
LastNonEmpty(texts) ==
    IF texts = <<>> THEN <<>>
    ELSE IF texts[Len(texts)] # <<>> THEN texts[Len(texts)]
    ELSE LastNonEmpty(Take(texts, Len(texts) - 1))

\* the institution the markdown tier finds above line i: the nearest of the
\* MarkdownWindow lines before it that survives normalise_institution
MarkdownBank(lines, i) ==
    LastNonEmpty([j \in 1..(i - 1) |->
                     IF j >= i - MarkdownWindow
                     THEN normalise_institution(Strip(LStrip(lines[j], {"#", " "}), {"*", " "}))
                     ELSE <<>>])

\* one round of the markdown tier's loop: the records after a line whose
\* match is apy_text and whose bank name is bank ("" for none)
WithLine(recs, apy_text, bank) ==
    IF apy_text # None /\ bank # <<>> /\ <<bank, apy_text>> \notin KeysOf(recs)
    THEN Append(recs, AccountRecord(bank, apy_text, None))
    ELSE recs

RECURSIVE MarkdownRecords(_, _, _)
\* the markdown tier's loop over the stripped lines, from line i on
MarkdownRecords(lines, i, recs) ==
    IF i > Len(lines) THEN recs
    ELSE MarkdownRecords(lines, i + 1,
                         WithLine(recs, ApySearch(lines[i]), MarkdownBank(lines, i)))

\* the variant that parses the markdown whatever the HTML gave
MarkdownAlways(recs) == TRUE
\* scrape_accounts_fallback parses the markdown when the HTML gave no record
MarkdownNeeded(recs) == recs = <<>>

\* the variant that returns the empty list instead of raising
FallbackNeverFails(recs) == FALSE
\* scrape_accounts_fallback raises when both fallback tiers gave no record
FallbackFailed(recs) == recs = <<>>

----------------------------------------------------------------------------
(* The link resolver's pure helpers: URL validity and redirect decoding.   *)

HOST_DENYLIST ==
    { <<"o","n","e","t","r","u","s","t",".","c","o","m">>,
      <<"p","r","i","v","a","c","y","p","o","r","t","a","l",".","d","e">>,
      <<"f","a","c","e","b","o","o","k",".","c","o","m">>,
      <<"t","w","i","t","t","e","r",".","c","o","m">>,
      <<"x",".","c","o","m">>,
      <<"i","n","s","t","a","g","r","a","m",".","c","o","m">>,
      <<"y","o","u","t","u","b","e",".","c","o","m">>,
      <<"i","t","u","n","e","s",".","a","p","p","l","e",".","c","o","m">>,
      <<"p","l","a","y",".","g","o","o","g","l","e",".","c","o","m">>,
      <<"d","o","u","b","l","e","c","l","i","c","k",".","n","e","t">>,
      <<"g","o","o","g","l","e","t","a","g","m","a","n","a","g","e","r",".","c","o","m">>,
      <<"g","o","o","g","l","e","a","d","s","e","r","v","i","c","e","s",".","c","o","m">>,
      <<"l","i","n","k","s","y","n","e","r","g","y",".","c","o","m">> }

REDIRECT_PARAMETERS ==
    << <<"u","r","l">>,
       <<"d","e","s","t">>,
       <<"d","e","s","t","i","n","a","t","i","o","n">>,
       <<"d","e","s","t","i","n","a","t","i","o","n","_","u","r","l">>,
       <<"r","e","d","i","r","e","c","t">>,
       <<"r","e","d","i","r","e","c","t","U","r","l">>,
       <<"r","e","d","i","r","e","c","t","_","u","r","l">>,
       <<"r","e","d","i","r","e","c","t","T","o">>,
       <<"r">>,
       <<"t","o">>,
       <<"t","a","r","g","e","t">> >>

Http == <<"h","t","t","p">>

HostDenied(host) ==
    \E blocked \in HOST_DENYLIST : host = blocked \/ EndsWith(host, <<".">> \o blocked)

HostIsExternal(host) == ~Contains(host, NerdwalletCom) /\ ~HostDenied(host)

is_valid_external(url) ==
    /\ url # <<>>
    /\ StartsWith(url, Http)
    /\ HostIsExternal(host_from_url(url))

\* urlsplit: what follows the scheme and the netloc
AfterNetlocOf(rest) ==
    LET stop == FirstIn(rest, {"/", "?", "#"}, 3)
    IN  IF ~StartsWith(rest, <<"/","/">>) THEN rest
        ELSE IF stop = 0 THEN <<>>
        ELSE Drop(rest, stop - 1)

UrlAfterNetloc(url) == AfterNetlocOf(UrlAfterScheme(url))

\* urlparse(url).fragment
FragmentOf(rest) ==
    LET h == FirstIn(rest, {"#"}, 1)
    IN  IF h = 0 THEN <<>> ELSE Drop(rest, h)

UrlFragment(url) == FragmentOf(UrlAfterNetloc(url))

\* urlparse(url).query
BeforeFragment(rest) ==
    LET h == FirstIn(rest, {"#"}, 1)
    IN  IF h = 0 THEN rest ELSE Take(rest, h - 1)

AfterQuestionMark(path) ==
    LET q == FirstIn(path, {"?"}, 1)
    IN  IF q = 0 THEN <<>> ELSE Drop(path, q)

UrlQuery(url) == AfterQuestionMark(BeforeFragment(UrlAfterNetloc(url)))

HexDigits == <<"0","1","2","3","4","5","6","7","8","9","a","b","c","d","e","f">>

IsHex(c) == LowerChar(c) \in Range(HexDigits)

HexValue(c) == (CHOOSE i \in 1..16 : HexDigits[i] = LowerChar(c)) - 1

\* the printable ASCII characters, from code 32 to code 126 (the grave accent,
\* code 96, is written "U+0060")
AsciiPrintable ==
    <<" ","!","\"","#","$","%","&","'","(",")","*","+",",","-",".","/",
      "0","1","2","3","4","5","6","7","8","9",":",";","<","=",">","?","@",
      "A","B","C","D","E","F","G","H","I","J","K","L","M","N","O","P","Q","R","S","T","U","V","W","X","Y","Z",
      "[","\\","]","^","_","U+0060",
      "a","b","c","d","e","f","g","h","i","j","k","l","m","n","o","p","q","r","s","t","u","v","w","x","y","z",
      "{","|","}","~">>

\* the text of one ASCII byte: a printable character, a tab, a newline, a
\* return, or "CTL" for any other control character
ByteChar(b) ==
    IF b >= 32 /\ b <= 126 THEN AsciiPrintable[b - 31]
    ELSE IF b = 9 THEN "\t"
    ELSE IF b = 10 THEN "\n"
    ELSE IF b = 13 THEN "\r"
    ELSE "CTL"

\* whether c is an ASCII character
IsAscii(c) == c \in Range(AsciiPrintable) \cup {"\t", "\n", "\r", "CTL"}

\* the byte of an ASCII character ("CTL" stands for code 1)
CharByte(c) ==
    IF c \in Range(AsciiPrintable) THEN (CHOOSE i \in 1..95 : AsciiPrintable[i] = c) + 31
    ELSE IF c = "\t" THEN 9
    ELSE IF c = "\n" THEN 10
    ELSE IF c = "\r" THEN 13
    ELSE 1

\* how many continuation bytes the UTF-8 lead byte b announces (0: b is no lead byte)
Utf8Need(b) ==
    IF b >= 194 /\ b <= 223 THEN 1
    ELSE IF b >= 224 /\ b <= 239 THEN 2
    ELSE IF b >= 240 /\ b <= 244 THEN 3
    ELSE 0

\* whether bytes[1 + k] is a valid k-th continuation byte of the lead byte bytes[1]
Utf8ContOk(bytes, k) ==
    /\ 1 + k <= Len(bytes)
    /\ LET c  == bytes[1 + k]
           lo == IF k = 1 /\ bytes[1] = 224 THEN 160
                 ELSE IF k = 1 /\ bytes[1] = 240 THEN 144 ELSE 128
           hi == IF k = 1 /\ bytes[1] = 237 THEN 159
                 ELSE IF k = 1 /\ bytes[1] = 244 THEN 143 ELSE 191
       IN  c >= lo /\ c <= hi

RECURSIVE Utf8Decode(_, _)
\* bytes.decode("utf-8", errors): bad is what an undecodable run of bytes
\* becomes ("" for "ignore", U+FFFD for "replace"); a character that is not
\* ASCII is written "NONASCII"
Utf8Decode(bytes, bad) ==
    IF bytes = <<>> THEN <<>>
    ELSE IF Head(bytes) < 128 THEN <<ByteChar(Head(bytes))>> \o Utf8Decode(Tail(bytes), bad)
    ELSE LET need == Utf8Need(Head(bytes))
             good == Cardinality({k \in 1..need : \A j \in 1..k : Utf8ContOk(bytes, j)})
         IN  IF need > 0 /\ good = need
             THEN <<"NONASCII">> \o Utf8Decode(Drop(bytes, need + 1), bad)
             ELSE bad \o Utf8Decode(Drop(bytes, good + 1), bad)

RECURSIVE UnquoteBytes(_)
\* urllib.parse.unquote_to_bytes on ASCII text: %XX is that byte, anything
\* else stays
UnquoteBytes(s) ==
    IF s = <<>> THEN <<>>
    ELSE IF Head(s) = "%" /\ Len(s) >= 3 /\ IsHex(s[2]) /\ IsHex(s[3])
         THEN <<16 * HexValue(s[2]) + HexValue(s[3])>> \o UnquoteBytes(Drop(s, 3))
         ELSE <<CharByte(Head(s))>> \o UnquoteBytes(Tail(s))

RECURSIVE Unquote(_)
\* urllib.parse.unquote: each run of ASCII characters is unquoted to bytes
\* and decoded as UTF-8 with errors="replace"
Unquote(s) ==
    IF s = <<>> THEN <<>>
    ELSE IF ~IsAscii(Head(s)) THEN <<Head(s)>> \o Unquote(Tail(s))
    ELSE LET stop == CHOOSE j \in 1..(Len(s) + 1) :
                         /\ \A k \in 1..(j - 1) : IsAscii(s[k])
                         /\ (j <= Len(s) => ~IsAscii(s[j]))
         IN  Utf8Decode(UnquoteBytes(Take(s, stop - 1)), <<"U+FFFD">>) \o Unquote(Drop(s, stop - 1))

\* the base64 alphabet; the URL-safe variant reads "-" as "+" and "_" as "/"
Base64Letters ==
    <<"A","B","C","D","E","F","G","H","I","J","K","L","M","N","O","P","Q","R","S","T","U","V","W","X","Y","Z",
      "a","b","c","d","e","f","g","h","i","j","k","l","m","n","o","p","q","r","s","t","u","v","w","x","y","z",
      "0","1","2","3","4","5","6","7","8","9">>

\* the 6-bit value of a character, or 64 for a character outside the alphabet
Base64Value(c) ==
    IF c \in Range(Base64Letters) THEN (CHOOSE i \in 1..62 : Base64Letters[i] = c) - 1
    ELSE IF c \in {"+", "-"} THEN 62
    ELSE IF c \in {"/", "_"} THEN 63
    ELSE 64

RECURSIVE Base64Scan(_, _, _, _, _)
\* binascii.a2b_base64 in its lenient mode: characters outside the alphabet
\* are skipped, and enough "=" after two or three characters of a group end
\* the data.  The result is the bytes, or <<-1>> for binascii.Error.
Base64Scan(s, quad, left, pads, out) ==
    IF s = <<>> THEN (IF quad = 0 THEN out ELSE <<-1>>)
    ELSE IF Head(s) = "="
         THEN IF quad >= 2 /\ quad + pads + 1 >= 4 THEN out
              ELSE Base64Scan(Tail(s), quad, left, IF quad >= 2 THEN pads + 1 ELSE pads, out)
    ELSE LET v == Base64Value(Head(s))
         IN  IF v = 64 THEN Base64Scan(Tail(s), quad, left, pads, out)
             ELSE CASE quad = 0 -> Base64Scan(Tail(s), 1, v, 0, out)
                    [] quad = 1 -> Base64Scan(Tail(s), 2, v % 16, 0,
                                              Append(out, (left * 4 + v \div 16) % 256))
                    [] quad = 2 -> Base64Scan(Tail(s), 3, v % 4, 0,
                                              Append(out, (left * 16 + v \div 4) % 256))
                    [] OTHER    -> Base64Scan(Tail(s), 0, 0, 0,
                                              Append(out, (left * 64 + v) % 256))

\* bytes.decode("utf-8", "ignore")
DecodeIgnore(bytes) == Utf8Decode(bytes, <<>>)

\* one round of decode_maybe_base64's loop: the text decoded with this
\* padding when it starts with "http", else None
HttpTextOf(bytes) ==
    IF bytes = <<-1>> THEN None
    ELSE IF StartsWith(DecodeIgnore(bytes), Http) THEN DecodeIgnore(bytes)
    ELSE None

Base64Try(cleaned, padding) == HttpTextOf(Base64Scan(cleaned \o padding, 0, 0, 0, <<>>))

RECURSIVE FirstGiven(_)
\* the first value of a list that is not None, or None
FirstGiven(xs) ==
    IF xs = <<>> THEN None
    ELSE IF Head(xs) # None THEN Head(xs)
    ELSE FirstGiven(Tail(xs))

\* the paddings decode_maybe_base64 tries, in order
Base64Paddings == << <<>>, <<"=">>, <<"=","=">>, <<"=","=","=">> >>

DecodeCleaned(cleaned) ==
    IF cleaned = <<>> THEN None
    ELSE FirstGiven([i \in 1..Len(Base64Paddings) |-> Base64Try(cleaned, Base64Paddings[i])])

decode_maybe_base64(value) == DecodeCleaned(StripSpace(value))

\* "+" read as a space, as parse_qs does before unquoting
PlusToSpace(s) == [i \in 1..Len(s) |-> IF s[i] = "+" THEN " " ELSE s[i]]

\* parse_qsl(query): the (name, value) pairs with a non-empty value
QueryPairs(query) ==
    LET fields == SplitOn(query, "&")
        pair(f) == LET e == FirstIn(f, {"="}, 1)
                   IN  IF e = 0 THEN << <<>>, <<>> >>
                       ELSE <<Unquote(PlusToSpace(Take(f, e - 1))), Unquote(PlusToSpace(Drop(f, e)))>>
        all == [i \in 1..Len(fields) |-> pair(fields[i])]
    IN  SelectSeq(all, LAMBDA p : p[2] # <<>>)

\* parse_qs(query)[key]: the values given for key, in order
QueryValues(query, key) ==
    LET ps == SelectSeq(QueryPairs(query), LAMBDA p : p[1] = key)
    IN  [i \in 1..Len(ps) |-> ps[i][2]]

RECURSIVE RedirectValues(_, _)
\* the values extract_redirect_target examines, in the order it examines them
RedirectValues(query, keys) ==
    IF keys = <<>> THEN <<>>
    ELSE QueryValues(query, Head(keys)) \o RedirectValues(query, Tail(keys))

\* what extract_redirect_target makes of one parameter value, or None
WithScheme(u) ==
    IF StartsWith(u, <<"/","/">>) THEN <<"h","t","t","p","s",":">> \o u ELSE u

ValidOrNone(url) == IF ~Falsy(url) /\ is_valid_external(url) THEN url ELSE None

CandidateOf(c) ==
    IF StartsWith(c, Http) /\ is_valid_external(c) THEN c
    ELSE ValidOrNone(decode_maybe_base64(c))

RedirectCandidate(value) == CandidateOf(WithScheme(Unquote(value)))

OrElse(first, second) == IF first # None THEN first ELSE second

FragmentTarget(frag) == IF StartsWith(frag, Http) /\ is_valid_external(frag) THEN frag ELSE None

RedirectTarget(values, fragment) ==
    OrElse(FirstGiven([i \in 1..Len(values) |-> RedirectCandidate(values[i])]),
           IF fragment # <<>> THEN FragmentTarget(Unquote(fragment)) ELSE None)

extract_redirect_target(href) ==
    IF Falsy(href) THEN None
    ELSE RedirectTarget(RedirectValues(UrlQuery(href), REDIRECT_PARAMETERS), UrlFragment(href))

RECURSIVE ChooseFrom(_, _, _)
\* choose_candidate's loop: the first valid URL whose host matches the
\* institution, else the first valid URL, else None
ChooseFrom(urls, institution, fallback) ==
    IF urls = <<>> THEN fallback
    ELSE IF ~is_valid_external(Head(urls)) THEN ChooseFrom(Tail(urls), institution, fallback)
    ELSE IF host_matches_institution(Head(urls), institution) THEN Head(urls)
    ELSE ChooseFrom(Tail(urls), institution, IF Falsy(fallback) THEN Head(urls) ELSE fallback)

choose_candidate(urls, institution) == ChooseFrom(urls, institution, None)

\* the notes after append_note(record, message)
append_note(notes, message) ==
    IF message = <<>> THEN notes
    ELSE IF Falsy(notes) THEN message
    ELSE Strip(notes \o <<" ","|"," ">> \o message, {" ", "|"})

----------------------------------------------------------------------------
(* Per-record steps of the link resolver and of the fact-check.            *)

\* a or b for two optional strings
Either(a, b) == IF Falsy(a) THEN b ELSE a

\* extract_url_from_locator: the redirect target of the href, else the href
\* itself, when it is a valid external URL; None otherwise
extract_url_from_locator(href) ==
    ValidOrNone(Either(extract_redirect_target(StripSpace(TextOf(href))),
                       StripSpace(TextOf(href))))

\* the loop over CTA_SELECTORS + FALLBACK_SELECTORS; a locator is the first
\* element of a selector that matched: [href, click], click being the URL
\* click_and_capture ends on, or None
LocatorCandidates(locators) ==
    FirstGiven([i \in 1..Len(locators) |->
                   OrElse(extract_url_from_locator(locators[i].href),
                          ValidOrNone(locators[i].click))])

RECURSIVE UntilMatch(_, _)
\* the candidates the loop over the anchors keeps: every valid one, up to
\* the first whose host matches the institution
UntilMatch(urls, institution) ==
    IF urls = <<>> THEN <<>>
    ELSE IF Head(urls) = None THEN UntilMatch(Tail(urls), institution)
    ELSE IF host_matches_institution(Head(urls), institution) THEN <<Head(urls)>>
    ELSE <<Head(urls)>> \o UntilMatch(Tail(urls), institution)

\* the loop over page.query_selector_all("a[href]")
AnchorCandidates(hrefs, institution) ==
    UntilMatch([i \in 1..Len(hrefs) |->
                   ValidOrNone(Either(extract_redirect_target(hrefs[i]), hrefs[i]))],
               institution)

\* candidate_urls, given what the selectors gave
CandidatesAfter(found, hrefs, institution) ==
    IF found # None THEN <<found>> ELSE AnchorCandidates(hrefs, institution)

\* candidate_urls for a loaded page
CandidateUrls(page, institution) ==
    CandidatesAfter(LocatorCandidates(page.locators), page.anchors, institution)

\* whether the resolver works on a record: its link is on the source site
OnSourceSite(link) == ~Falsy(link) /\ Contains(link, NerdwalletCom)

PlaywrightTimeoutNote == <<"P","l","a","y","w","r","i","g","h","t"," ","t","i","m","e","o","u","t"," ","o","p","e","n","i","n","g"," ","p","a","g","e",":"," ">>
CouldNotResolveNote == <<"C","o","u","l","d"," ","n","o","t"," ","r","e","s","o","l","v","e"," ","b","a","n","k"," ","U","R","L">>
NotInstalledNote == <<" ","|"," ","P","l","a","y","w","r","i","g","h","t"," ","n","o","t"," ","i","n","s","t","a","l","l","e","d">>

\* one round of the resolver's loop for a record on the source site: direct
\* is the redirect target of its link, timeout the message of the
\* TimeoutError page.goto raised, or None, best the candidate chosen on the page
ResolveWith(record, direct, timeout, best) ==
    IF /\ ~Falsy(direct) /\ is_valid_external(direct)
       /\ host_matches_institution(direct, record.institution)
    THEN [record EXCEPT !.link = direct]
    ELSE IF timeout # None
         THEN [record EXCEPT !.fact_check_notes =
                   append_note(record.fact_check_notes, PlaywrightTimeoutNote \o timeout)]
    ELSE IF ~Falsy(best) THEN [record EXCEPT !.link = best]
    ELSE [record EXCEPT !.fact_check_notes =
              append_note(record.fact_check_notes, CouldNotResolveNote)]

\* one round of the resolver's loop over the records
ResolveOne(record, timeout, page) ==
    IF ~OnSourceSite(record.link) THEN record
    ELSE ResolveWith(record,
                     extract_redirect_target(record.link),
                     timeout,
                     choose_candidate(CandidateUrls(page, record.institution), record.institution))

\* a page that was not loaded
NoPage == [locators |-> <<>>, anchors |-> <<>>]

\* what the resolver met for a record its loop has not reached
NotVisited == [kind |-> "none", link |-> None, page |-> NoPage]

\* what a round of the resolver's loop met for a record on the source site:
\* the link the record had, and which branch the round took: the redirect
\* target of the link was taken ("direct"), page.goto timed out ("timeout"),
\* or the page was loaded and searched ("page")
VisitWith(record, direct, timeout, page) ==
    IF /\ ~Falsy(direct) /\ is_valid_external(direct)
       /\ host_matches_institution(direct, record.institution)
    THEN [kind |-> "direct", link |-> record.link, page |-> NoPage]
    ELSE IF timeout # None
    THEN [kind |-> "timeout", link |-> record.link, page |-> NoPage]
    ELSE [kind |-> "page", link |-> record.link, page |-> page]

\* what a round of the resolver's loop met: a record without a link on the
\* source site is passed over ("skipped")
VisitOne(record, timeout, page) ==
    IF ~OnSourceSite(record.link)
    THEN [kind |-> "skipped", link |-> record.link, page |-> NoPage]
    ELSE VisitWith(record, extract_redirect_target(record.link), timeout, page)

\* the resolver when playwright cannot be imported
ResolveNotInstalled(record) ==
    IF OnSourceSite(record.link)
    THEN [record EXCEPT !.fact_check_notes =
              Strip(TextOf(record.fact_check_notes) \o NotInstalledNote, {" ", "|"})]
    ELSE record

SkippedNote == <<"S","k","i","p","p","e","d",":"," ","G","E","M","I","N","I","_","A","P","I","_","K","E","Y"," ","n","o","t"," ","p","r","o","v","i","d","e","d",";"," ","u","n","a","b","l","e"," ","t","o"," ","v","e","r","i","f","y"," ","a","u","t","o","m","a","t","i","c","a","l","l","y",".">>
GeminiErrorPrefix == <<"G","e","m","i","n","i"," ","e","r","r","o","r",":"," ">>

\* str.upper()
Upper(s) ==
    [i \in 1..Len(s) |->
        IF IsLower(s[i]) THEN UpperLetters[CHOOSE k \in 1..26 : LowerLetters[k] = s[i]] ELSE s[i]]

\* the notes fact_check_accounts stores: the note it found joined with message
JoinNotes(existing_note, message) ==
    IF Falsy(existing_note) THEN message
    ELSE Strip(existing_note \o <<" ","|"," ">> \o message, {" ", "|"})

\* the variant that resets the verdict and leaves the notes as they are
FactCheckSkippedWithoutNote(record) == [record EXCEPT !.double_check = "None"]

\* fact_check_accounts without a credential
FactCheckSkipped(record) ==
    [record EXCEPT !.double_check = "None", !.fact_check_notes = SkippedNote]

\* fact_check_accounts when model.generate_content raises exc
FactCheckError(record, exc) ==
    [record EXCEPT !.double_check = "False",
                   !.fact_check_notes = JoinNotes(record.fact_check_notes, GeminiErrorPrefix \o exc)]

\* fact_check_accounts after the LLM answered text, label and note being the
\* two sides of its first colon
FactCheckReplied(record, text, label, note) ==
    [record EXCEPT
        !.double_check = IF label = <<"V","E","R","I","F","I","E","D">> THEN "True"
                         ELSE IF label = <<"R","E","J","E","C","T","E","D">> THEN "False"
                         ELSE "None",
        !.fact_check_notes = IF Either(note, text) # <<>>
                             THEN JoinNotes(record.fact_check_notes, Either(note, text))
                             ELSE record.fact_check_notes]

\* str.partition(":")[0]
BeforeColon(text) ==
    IF FirstIn(text, {":"}, 1) = 0 THEN text ELSE Take(text, FirstIn(text, {":"}, 1) - 1)

\* str.partition(":")[2]
AfterColon(text) ==
    IF FirstIn(text, {":"}, 1) = 0 THEN <<>> ELSE Drop(text, FirstIn(text, {":"}, 1))

\* fact_check_accounts when the LLM answers reply (response.text)
FactCheckReply(record, reply) ==
    FactCheckReplied(record,
                     StripSpace(TextOf(reply)),
                     Upper(StripSpace(BeforeColon(StripSpace(TextOf(reply))))),
                     StripSpace(AfterColon(StripSpace(TextOf(reply)))))

----------------------------------------------------------------------------
(* The inputs of a run: what the collaborators may return.                 *)

Https == <<"h","t","t","p","s",":","/","/">>
AllyUrl == Https \o <<"w","w","w",".","a","l","l","y",".","c","o","m">>
OtherUrl == Https \o <<"o","t","h","e","r",".","c","o","m">>
FacebookUrl == Https \o <<"f","a","c","e","b","o","o","k",".","c","o","m","/","x">>
FacebookPortUrl == Https \o <<"w","w","w",".","f","a","c","e","b","o","o","k",".","c","o","m",":","4","4","3","/","x">>
ReviewUrl == Https \o <<"w","w","w",".","n","e","r","d","w","a","l","l","e","t",".","c","o","m","/","r","e","v","i","e","w","s">>
RedirectUrl == Https \o <<"w","w","w",".","n","e","r","d","w","a","l","l","e","t",".","c","o","m","/","r","?","u","r","l","=","h","t","t","p","s","%","3","A","%","2","F","%","2","F","a","l","l","y",".","c","o","m">>

Ally == <<"A","l","l","y">>
Usa == <<"u","s","a">>
FourPercent == <<"4","%">>
FourPercentApy == <<"4","%"," ","A","P","Y">>

\* the most entries in a list a collaborator returns: the items of the
\* accounts list, the text nodes of the page
MaxItems == 2

\* the most lines of the markdown of the page
MaxLines == 3

SeqsUpTo(S, n) == UNION {[1..k -> S] : k \in 0..n}

\* the items the extraction service may return: a name that is kept, a name
\* that is noise, or none; an apy or none; a link on the source site, plain
\* or with a redirect parameter, or none
RawItems ==
    [institution : {None, <<"*"," ">> \o Ally, Usa},
     apy         : {None, FourPercent},
     link        : {None, ReviewUrl, RedirectUrl}]

\* client.extract's response: no data, data that is not a dict, or a dict
\* with an accounts list
Responses ==
    {[data |-> "none", accounts |-> <<>>], [data |-> "other", accounts |-> <<>>]}
    \cup {[data |-> "dict", accounts |-> a] : a \in SeqsUpTo(RawItems, MaxItems)}

\* the text nodes of the fetched HTML, each with the card it sits in: the
\* headings of the card and its anchors
HtmlNodes ==
    [text     : {FourPercentApy, <<"5","%"," ","a","p","y">>, FourPercent},
     headings : {<<>>, <<Usa, Ally>>},
     anchors  : {<<>>, <<[href |-> AllyUrl, text |-> <<"O","p","e","n">>]>>}]

\* the lines of the fetched markdown
MarkdownLines == {<<"#"," ">> \o Ally, <<"*","*">> \o Usa \o <<"*","*">>, <<" ">> \o FourPercentApy}

\* the pages the browser may show for a referring link
Pages ==
    { [locators |-> <<>>, anchors |-> <<>>],
      [locators |-> <<[href |-> ReviewUrl, click |-> AllyUrl]>>, anchors |-> <<>>],
      [locators |-> <<>>, anchors |-> <<FacebookUrl, FacebookPortUrl, OtherUrl>>],
      [locators |-> <<[href |-> OtherUrl, click |-> None]>>, anchors |-> <<AllyUrl>>] }

\* the message of the TimeoutError page.goto may raise
NavigationTimeout == <<"T","i","m","e","o","u","t"," ","3","0","0","0","0","m","s"," ","e","x","c","e","e","d","e","d",".">>

\* the texts the LLM may answer
Replies ==
    { <<"V","E","R","I","F","I","E","D",":"," ","o","k">>,
      <<"r","e","j","e","c","t","e","d">>,
      <<>> }

\* the messages of the exceptions the LLM call may raise
LlmErrors == { <<"5","0","3">> }

\* no exception
NoError == ""

\* the output file before save_records
NotWritten == [written |-> FALSE, list |-> <<>>]

----------------------------------------------------------------------------
(* The run: run() and the functions it calls, one action per step.         *)

\* get_gemini_summary is not running
SummaryOff ==
    /\ skey = FALSE /\ sllm = [kind |-> "off", text |-> <<>>]
    /\ spc = "off" /\ wpc = "off"
    /\ sresult = None /\ sret = None /\ sjoin = "unknown" /\ salive = "unknown"

HarnessesOff ==
    /\ nraw = <<>> /\ nout = <<>> /\ nout2 = <<>> /\ npc = "off"
    /\ hurl = <<>> /\ hinst = <<>> /\ hres = FALSE /\ hpc = "off"
    /\ SummaryOff

Init ==
    /\ pc = "start"
    /\ gemini_key = FALSE
    /\ accounts = <<>>
    /\ records = <<>>
    /\ tiers = <<>>
    /\ yields = <<>>
    /\ error = NoError
    /\ output = NotWritten
    /\ ri = 0
    /\ outcomes = <<>>
    /\ visits = <<>>
    /\ scraped = <<>>
    /\ configured = FALSE
    /\ HarnessesOff

\* the run ends with an exception
Fail(message) ==
    /\ pc' = "failed"
    /\ error' = message

\* load_credentials: FIRECRAWL_API_KEY is required, GEMINI_API_KEY optional
LoadCredentials ==
    /\ pc = "start"
    /\ \E firecrawl_key \in BOOLEAN, gk \in BOOLEAN :
          IF ~firecrawl_key
          THEN /\ Fail("FIRECRAWL_API_KEY is required to run the scraper.")
               /\ UNCHANGED gemini_key
          ELSE /\ pc' = "schema"
               /\ gemini_key' = gk
               /\ UNCHANGED error
    /\ UNCHANGED <<accounts, records, tiers, yields, output, ri, outcomes>>
    /\ UNCHANGED <<visits, scraped, configured>>
    /\ UNCHANGED <<normVars, hostVars, sumVars>>

\* scrape_accounts up to its return, its raise, or its call of
\* scrape_accounts_fallback
ScrapeAccounts ==
    /\ pc = "schema"
    /\ tiers' = Append(tiers, "schema")
    /\ \E response \in Responses :
          IF response.data = "none"
          THEN /\ Fail("Firecrawl extraction did not return any data.")
               /\ yields' = Append(yields, 0)
               /\ UNCHANGED <<accounts, records>>
          ELSE IF response.data # "dict" \/ response.accounts = <<>>
          THEN /\ pc' = "fallback"
               /\ yields' = Append(yields, 0)
               /\ UNCHANGED <<accounts, records, error>>
          ELSE /\ accounts' = response.accounts
               /\ records' = SchemaRecords(response.accounts)
               /\ yields' = Append(yields, Len(records'))
               /\ IF records' = <<>>
                  THEN Fail("No valid account records parsed from Firecrawl response.")
                  ELSE pc' = "scraped" /\ UNCHANGED error
    /\ UNCHANGED <<gemini_key, output, ri, outcomes>>
    /\ UNCHANGED <<visits, scraped, configured>>
    /\ UNCHANGED <<normVars, hostVars, sumVars>>

\* scrape_accounts_fallback: client.scrape and the HTML heuristic parse
FallbackScrape ==
    /\ pc = "fallback"
    /\ tiers' = Append(tiers, "html")
    /\ \E has_html \in BOOLEAN, nodes \in SeqsUpTo(HtmlNodes, MaxItems) :
          IF ~has_html
          THEN /\ Fail("Fallback scrape returned no HTML content.")
               /\ yields' = Append(yields, 0)
               /\ UNCHANGED records
          ELSE /\ records' = HtmlRecords(nodes, <<>>)
               /\ yields' = Append(yields, Len(records'))
               /\ pc' = IF MarkdownNeeded(records') THEN "markdown" ELSE "scraped"
               /\ UNCHANGED error
    /\ UNCHANGED <<gemini_key, accounts, output, ri, outcomes>>
    /\ UNCHANGED <<visits, scraped, configured>>
    /\ UNCHANGED <<normVars, hostVars, sumVars>>

\* scrape_accounts_fallback: the markdown heuristic parse and the final test
MarkdownParse ==
    /\ pc = "markdown"
    /\ tiers' = Append(tiers, "markdown")
    /\ \E md \in SeqsUpTo(MarkdownLines, MaxLines) :
          /\ records' = MarkdownRecords([i \in 1..Len(md) |-> StripSpace(md[i])], 1, records)
          /\ yields' = Append(yields, Len(records') - Len(records))
          /\ IF FallbackFailed(records')
             THEN Fail("Fallback parser could not identify any APY entries.")
             ELSE pc' = "scraped" /\ UNCHANGED error
    /\ UNCHANGED <<gemini_key, accounts, output, ri, outcomes>>
    /\ UNCHANGED <<visits, scraped, configured>>
    /\ UNCHANGED <<normVars, hostVars, sumVars>>

\* run(): RESOLVE_BANK_LINKS decides whether the resolver runs; the resolver
\* only annotates the records when playwright cannot be imported
ResolveStart ==
    /\ pc = "scraped"
    /\ accounts' = <<>>
    /\ outcomes' = [i \in 1..Len(records) |-> "none"]
    /\ visits' = [i \in 1..Len(records) |-> NotVisited]
    /\ scraped' = [i \in 1..Len(records) |-> <<records[i].institution, records[i].apy>>]
    /\ \E resolve_bank_links \in BOOLEAN, installed \in BOOLEAN :
          IF ~resolve_bank_links
          THEN pc' = "factcheck" /\ UNCHANGED records
          ELSE IF ~installed
          THEN /\ pc' = "factcheck"
               /\ records' = [i \in 1..Len(records) |-> ResolveNotInstalled(records[i])]
          ELSE pc' = "resolve" /\ UNCHANGED records
    /\ ri' = 1
    /\ UNCHANGED <<gemini_key, tiers, yields, error, output>>
    /\ UNCHANGED <<configured>>
    /\ UNCHANGED <<normVars, hostVars, sumVars>>

\* resolve_outbound_links_with_playwright: one round of its loop
ResolveRecord ==
    /\ pc = "resolve"
    /\ ri <= Len(records)
    /\ \E timeout \in {None, NavigationTimeout} :
       \E page \in IF timeout = None THEN Pages ELSE {NoPage} :
          /\ records' = [records EXCEPT ![ri] = ResolveOne(records[ri], timeout, page)]
          /\ visits' = [visits EXCEPT ![ri] = VisitOne(records[ri], timeout, page)]
    /\ ri' = ri + 1
    /\ UNCHANGED <<pc, gemini_key, accounts, tiers, yields, error, output, outcomes>>
    /\ UNCHANGED <<scraped, configured>>
    /\ UNCHANGED <<normVars, hostVars, sumVars>>

\* resolve_outbound_links_with_playwright returns
ResolveDone ==
    /\ pc = "resolve"
    /\ ri > Len(records)
    /\ pc' = "factcheck"
    /\ ri' = 1
    /\ UNCHANGED <<gemini_key, accounts, records, tiers, yields, error, output, outcomes>>
    /\ UNCHANGED <<visits, scraped, configured>>
    /\ UNCHANGED <<normVars, hostVars, sumVars>>

\* fact_check_accounts without a credential
FactCheckSkip ==
    /\ pc = "factcheck"
    /\ ~gemini_key
    /\ records' = [i \in 1..Len(records) |-> FactCheckSkipped(records[i])]
    /\ outcomes' = [i \in 1..Len(records) |-> "skipped"]
    /\ pc' = "save"
    /\ UNCHANGED <<gemini_key, accounts, tiers, yields, error, output, ri>>
    /\ UNCHANGED <<visits, scraped, configured>>
    /\ UNCHANGED <<normVars, hostVars, sumVars>>

\* fact_check_accounts: model.generate_content(prompt) is called for the
\* next record
FactCheckCall ==
    /\ pc = "factcheck"
    /\ gemini_key
    /\ ri <= Len(records)
    /\ pc' = "awaiting"
    /\ configured' = TRUE
    /\ outcomes' = [outcomes EXCEPT ![ri] = "pending"]
    /\ UNCHANGED <<gemini_key, accounts, records, tiers, yields, error, output, ri>>
    /\ UNCHANGED <<visits, scraped>>
    /\ UNCHANGED <<normVars, hostVars, sumVars>>

\* the LLM answers
LlmReply ==
    /\ pc = "awaiting"
    /\ \E reply \in Replies :
          records' = [records EXCEPT ![ri] = FactCheckReply(records[ri], reply)]
    /\ outcomes' = [outcomes EXCEPT ![ri] = "reply"]
    /\ pc' = "factcheck"
    /\ ri' = ri + 1
    /\ UNCHANGED <<gemini_key, accounts, tiers, yields, error, output>>
    /\ UNCHANGED <<visits, scraped, configured>>
    /\ UNCHANGED <<normVars, hostVars, sumVars>>

\* the LLM call raises
LlmRaise ==
    /\ pc = "awaiting"
    /\ \E exc \in LlmErrors :
          records' = [records EXCEPT ![ri] = FactCheckError(records[ri], exc)]
    /\ outcomes' = [outcomes EXCEPT ![ri] = "raise"]
    /\ pc' = "factcheck"
    /\ ri' = ri + 1
    /\ UNCHANGED <<gemini_key, accounts, tiers, yields, error, output>>
    /\ UNCHANGED <<visits, scraped, configured>>
    /\ UNCHANGED <<normVars, hostVars, sumVars>>

\* the LLM never answers: generate_content is called without a timeout, so
\* the call does not return and the run stays where it is
LlmHang ==
    /\ pc = "awaiting"
    /\ outcomes[ri] = "pending"
    /\ outcomes' = [outcomes EXCEPT ![ri] = "hung"]
    /\ pc' = "hung"
    /\ UNCHANGED <<gemini_key, accounts, records, tiers, yields, error, output, ri>>
    /\ UNCHANGED <<visits, scraped, configured>>
    /\ UNCHANGED <<normVars, hostVars, sumVars>>

\* fact_check_accounts returns
FactCheckDone ==
    /\ pc = "factcheck"
    /\ gemini_key
    /\ ri > Len(records)
    /\ pc' = "save"
    /\ configured' = TRUE
    /\ UNCHANGED <<gemini_key, accounts, records, tiers, yields, error, output, ri, outcomes>>
    /\ UNCHANGED <<visits, scraped>>
    /\ UNCHANGED <<normVars, hostVars, sumVars>>

\* AccountRecord.to_dict: the five fields of the record, by name
to_dict(record) ==
    [institution |-> record.institution, apy |-> record.apy, link |-> record.link,
     double_check |-> record.double_check, fact_check_notes |-> record.fact_check_notes]

\* the variant that leaves out the records whose fact-check failed
SerialisedWithoutFailed(recs) ==
    SelectSeq([i \in 1..Len(recs) |-> to_dict(recs[i])], LAMBDA r : r.double_check # "False")

\* save_records: the list it hands to json.dump
Serialised(recs) == [i \in 1..Len(recs) |-> to_dict(recs[i])]

\* save_records: every record's to_dict(), written in one json.dump
SaveRecords ==
    /\ pc = "save"
    /\ output' = [written |-> TRUE, list |-> Serialised(records)]
    /\ pc' = "done"
    /\ UNCHANGED <<gemini_key, accounts, records, tiers, yields, error, ri, outcomes>>
    /\ UNCHANGED <<visits, scraped, configured>>
    /\ UNCHANGED <<normVars, hostVars, sumVars>>

Next ==
    \/ LoadCredentials
    \/ ScrapeAccounts
    \/ FallbackScrape
    \/ MarkdownParse
    \/ ResolveStart
    \/ ResolveRecord
    \/ ResolveDone
    \/ FactCheckSkip
    \/ FactCheckCall
    \/ LlmReply
    \/ LlmRaise
    \/ LlmHang
    \/ FactCheckDone
    \/ SaveRecords

Spec == Init /\ [][Next]_vars

\* the steps of fact_check_accounts and of save_records, but for the LLM
\* never answering
FactCheckSteps ==
    FactCheckSkip \/ FactCheckCall \/ LlmReply \/ LlmRaise \/ FactCheckDone \/ SaveRecords

\* the same run, in which the fact-check and the save go on whenever they
\* can: run() is one sequential process that does not stop by itself
FairSpec == Init /\ [][Next]_vars /\ WF_vars(FactCheckSteps)

----------------------------------------------------------------------------
(* Harness for the normaliser: a raw text is normalised once, then again.  *)

\* the lexemes raw texts are built from
Fragments ==
    { <<"&">>, <<"a","m","p",";">>, <<"B","n","k">>, <<" ">>, <<"-">>, <<"*">>,
      <<"[">>, <<"]","(","u",")">>, <<"!">>, <<"u","s","a">>, <<"f","l","a","g">> }

\* the most lexemes in one raw text
MaxFrags == 3

RawTexts == {Concat(fs) : fs \in SeqsUpTo(Fragments, MaxFrags)}

RunOff ==
    /\ pc = "off" /\ gemini_key = FALSE /\ accounts = <<>> /\ records = <<>>
    /\ tiers = <<>> /\ yields = <<>> /\ error = NoError /\ output = NotWritten
    /\ ri = 0 /\ outcomes = <<>>
    /\ visits = <<>> /\ scraped = <<>> /\ configured = FALSE

InitNorm ==
    /\ nraw \in RawTexts
    /\ nout = <<>>
    /\ nout2 = <<>>
    /\ npc = "raw"
    /\ hurl = <<>> /\ hinst = <<>> /\ hres = FALSE /\ hpc = "off"
    /\ RunOff
    /\ SummaryOff

NormaliseOnce ==
    /\ npc = "raw"
    /\ nout' = normalise_institution(nraw)
    /\ npc' = "once"
    /\ UNCHANGED <<nraw, nout2>>
    /\ UNCHANGED <<hostVars, runVars, sumVars>>

NormaliseTwice ==
    /\ npc = "once"
    /\ nout2' = normalise_institution(nout)
    /\ npc' = "twice"
    /\ UNCHANGED <<nraw, nout>>
    /\ UNCHANGED <<hostVars, runVars, sumVars>>

NextNorm == NormaliseOnce \/ NormaliseTwice

SpecNorm == InitNorm /\ [][NextNorm]_vars

----------------------------------------------------------------------------
(* Harness for host_matches_institution: it is applied to a URL and an     *)
(* institution name.                                                       *)

HostUrls ==
    {Concat(<<scheme, www, name, tld, path>>) :
        scheme \in {Https, <<"h","t","t","p",":","/","/">>},
        www    \in {<<>>, <<"w","w","w",".">>},
        name   \in {<<"s","o","f","i">>, <<"u","n","r","e","l","a","t","e","d">>, <<"a","l","l","y">>, <<"m","y","s","o","f","i">>},
        tld    \in {<<".","c","o","m">>, <<".","o","r","g">>},
        path   \in {<<>>, <<"/","s","a","v","e">>}}

HostInstitutions ==
    { <<"S","o","F","i">>, <<"s","o","f","i">>, Ally, <<"A","l","l","y"," ","B","a","n","k">>,
      <<"a","l","l","y"," ","b","a","n","k">>, <<>> }

InitHost ==
    /\ hurl \in HostUrls
    /\ hinst \in HostInstitutions
    /\ hres = FALSE
    /\ hpc = "args"
    /\ nraw = <<>> /\ nout = <<>> /\ nout2 = <<>> /\ npc = "off"
    /\ RunOff
    /\ SummaryOff

MatchHost ==
    /\ hpc = "args"
    /\ hres' = host_matches_institution(hurl, hinst)
    /\ hpc' = "done"
    /\ UNCHANGED <<hurl, hinst>>
    /\ UNCHANGED <<normVars, runVars, sumVars>>

NextHost == MatchHost

SpecHost == InitHost /\ [][NextHost]_vars

----------------------------------------------------------------------------
(* get_gemini_summary (src/forecast_api.py): the caller starts a worker     *)
(* thread that calls the LLM, joins it for 30 seconds and returns.  The     *)
(* caller and the worker are two processes whose steps interleave.          *)

KeyNotSetText == <<"G","e","m","i","n","i"," ","A","P","I"," ","k","e","y"," ","n","o","t"," ","s","e","t",".">>
TimedOutText == <<"G","e","m","i","n","i"," ","s","u","m","m","a","r","y"," ","t","i","m","e","d"," ","o","u","t",".">>
NoSummaryText == <<"(","N","o"," ","s","u","m","m","a","r","y"," ","g","e","n","e","r","a","t","e","d",")">>

\* what model.generate_content may do: answer a response whose text is a
\* string or None, raise an Exception, raise something that is not an
\* Exception (the worker's except clause lets it through), or never return
LlmBehaviours ==
    {[kind |-> "text", text |-> t] :
        t \in {None, <<>>, <<" "," ">>, <<"o","k">>, <<" ","N","I","M"," ","u","p","\n">>}}
    \cup {[kind |-> "raise", text |-> e] : e \in {<<"5","0","3">>, <<"q","u","o","t","a">>}}
    \cup {[kind |-> "abort", text |-> <<>>], [kind |-> "hang", text |-> <<>>]}

\* call_gemini: what the worker stores in result['text']
WorkerText(llm) ==
    IF llm.kind = "raise" THEN GeminiErrorPrefix \o llm.text
    ELSE IF Falsy(llm.text) THEN NoSummaryText
    ELSE StripSpace(llm.text)

\* result.get('text', '(No summary generated)')
ResultGet(result) == IF result = None THEN NoSummaryText ELSE result

\* the variant that returns the result without asking whether the worker
\* is still alive
SummaryValueUnchecked(alive, result) == ResultGet(result)

\* what get_gemini_summary returns after the join
SummaryValue(alive, result) == IF alive THEN TimedOutText ELSE ResultGet(result)

\* threading.Thread.is_alive() of the worker
WorkerAlive == wpc \in {"calling", "stored"}

InitSummary ==
    /\ skey \in BOOLEAN
    /\ sllm \in LlmBehaviours
    /\ spc = "call"
    /\ wpc = "idle"
    /\ sresult = None /\ sret = None /\ sjoin = "unknown" /\ salive = "unknown"
    /\ nraw = <<>> /\ nout = <<>> /\ nout2 = <<>> /\ npc = "off"
    /\ hurl = <<>> /\ hinst = <<>> /\ hres = FALSE /\ hpc = "off"
    /\ RunOff

\* the caller up to t.start(): without a key it returns at once
SummaryStart ==
    /\ spc = "call"
    /\ IF ~skey
       THEN /\ sret' = KeyNotSetText
            /\ spc' = "returned"
            /\ UNCHANGED wpc
       ELSE /\ spc' = "joining"
            /\ wpc' = "calling"
            /\ UNCHANGED sret
    /\ UNCHANGED <<skey, sllm, sresult, sjoin, salive>>
    /\ UNCHANGED <<normVars, hostVars, runVars>>

\* the worker: generate_content returned or raised an Exception, and
\* call_gemini stores the text
WorkerStore ==
    /\ wpc = "calling"
    /\ sllm.kind \in {"text", "raise"}
    /\ sresult' = WorkerText(sllm)
    /\ wpc' = "stored"
    /\ UNCHANGED <<skey, sllm, spc, sret, sjoin, salive>>
    /\ UNCHANGED <<normVars, hostVars, runVars>>

\* the worker: generate_content raised something call_gemini does not catch,
\* and the thread ends without a text
WorkerAbort ==
    /\ wpc = "calling"
    /\ sllm.kind = "abort"
    /\ wpc' = "done"
    /\ UNCHANGED <<skey, sllm, spc, sresult, sret, sjoin, salive>>
    /\ UNCHANGED <<normVars, hostVars, runVars>>

\* the worker: call_gemini returns and the thread ends
WorkerExit ==
    /\ wpc = "stored"
    /\ wpc' = "done"
    /\ UNCHANGED <<skey, sllm, spc, sresult, sret, sjoin, salive>>
    /\ UNCHANGED <<normVars, hostVars, runVars>>

\* the caller: t.join returns because the worker ended
JoinFinished ==
    /\ spc = "joining"
    /\ ~WorkerAlive
    /\ sjoin' = "finished"
    /\ spc' = "joined"
    /\ UNCHANGED <<skey, sllm, wpc, sresult, sret, salive>>
    /\ UNCHANGED <<normVars, hostVars, runVars>>

\* the caller: t.join returns because its 30 seconds elapsed
JoinElapsed ==
    /\ spc = "joining"
    /\ WorkerAlive
    /\ sjoin' = "elapsed"
    /\ spc' = "joined"
    /\ UNCHANGED <<skey, sllm, wpc, sresult, sret, salive>>
    /\ UNCHANGED <<normVars, hostVars, runVars>>

\* the caller: t.is_alive() and the return
SummaryReturn ==
    /\ spc = "joined"
    /\ salive' = IF WorkerAlive THEN "alive" ELSE "dead"
    /\ sret' = SummaryValue(WorkerAlive, sresult)
    /\ spc' = "returned"
    /\ UNCHANGED <<skey, sllm, wpc, sresult, sjoin>>
    /\ UNCHANGED <<normVars, hostVars, runVars>>

NextSummary ==
    \/ SummaryStart
    \/ WorkerStore
    \/ WorkerAbort
    \/ WorkerExit
    \/ JoinFinished
    \/ JoinElapsed
    \/ SummaryReturn

\* the steps of the caller
CallerSteps == SummaryStart \/ JoinFinished \/ JoinElapsed \/ SummaryReturn

\* the steps of the worker, when the LLM call returns
WorkerSteps == WorkerStore \/ WorkerAbort \/ WorkerExit

\* both threads are scheduled: a thread that can take a step takes it in the
\* end; the worker has no step to take while the LLM call hangs
SpecSummary ==
    InitSummary /\ [][NextSummary]_vars /\ WF_vars(CallerSteps) /\ WF_vars(WorkerSteps)

----------------------------------------------------------------------------
(* The claims of the specification, stated over the run.                   *)

TierOrder == <<"schema", "html", "markdown">>

\* no two records of a list share (institution, apy)
NoDuplicates(recs) ==
    \A i, j \in 1..Len(recs) :
        i # j => <<recs[i].institution, recs[i].apy>> # <<recs[j].institution, recs[j].apy>>

\* every record of a list has an institution and an apy
AllComplete(recs) ==
    \A i \in 1..Len(recs) : recs[i].institution # <<>> /\ recs[i].apy # <<>>

\* C1: a run that tried a tier fails only after all three tiers were tried:
\* a tier that ends with no record hands over to the next one.
C1_FailsOnlyAfterAllTiers ==
    (pc = "failed" /\ tiers # <<>>) => tiers = TierOrder

\* C2: a record whose LLM call raised gets a verdict other than the one a
\* REJECTED reply gives, and a "Gemini error: ..." note.
C2_ErrorIsNotRejected ==
    \A i \in DOMAIN outcomes :
        outcomes[i] = "raise" =>
            /\ records[i].double_check # FactCheckReply(records[i], <<"R","E","J","E","C","T","E","D">>).double_check
            /\ Contains(TextOf(records[i].fact_check_notes), GeminiErrorPrefix)

\* C3: the notes of a record are only extended: after every step of the
\* resolver and of the fact-check, with or without a credential, the notes
\* the record had before the step are contained in the notes it has after.
C3_NotesAppendOnly ==
    [][(pc \in {"scraped", "resolve", "factcheck", "awaiting", "save"} =>
           (\A i \in 1..Len(records) :
               Contains(TextOf(records'[i].fact_check_notes), TextOf(records[i].fact_check_notes))))]_vars

\* C4: a run whose LLM call never answers still completes and writes its
\* output.
C4_HangStillCompletes == (pc = "hung") ~> (pc = "done")

\* C5: the written list never holds two records with the same
\* (institution, apy), whichever tier produced them.
C5_OutputHasNoDuplicates == output.written => NoDuplicates(output.list)

\* C6: every record, from any tier, has a non-empty institution and a
\* non-empty apy; the schema tier drops exactly the items one of whose fields
\* is empty after normalisation and keeps the others (one valid item and one
\* without apy give one record).
C6_RecordsAreComplete ==
    /\ AllComplete(records)
    /\ output.written => AllComplete(output.list)
    /\ (pc = "scraped" /\ tiers = <<"schema">>) =>
          Len(records) = Cardinality({i \in 1..Len(accounts) :
                             /\ normalise_institution(TextOf(accounts[i].institution)) # <<>>
                             /\ clean_text(TextOf(accounts[i].apy)) # <<>>})

\* C6, its case: a response with a valid item and an item without apy gave
\* one record.
C6_OneValidOneWithoutApy ==
    /\ pc = "scraped" /\ tiers = <<"schema">>
    /\ Len(accounts) = 2
    /\ accounts[1].institution = <<"*"," ">> \o Ally /\ accounts[1].apy = FourPercent
    /\ accounts[2].institution = <<"*"," ">> \o Ally /\ accounts[2].apy = None
    /\ Len(records) = 1 /\ records[1].institution = Ally

\* C7: the tiers run in the order schema, HTML, markdown; a tier is attempted
\* only after every tier before it ended with no record, so the records of a
\* run all come from the last tier attempted.
C7_TiersInOrder ==
    /\ Len(tiers) <= 3 /\ tiers = SubSeq(TierOrder, 1, Len(tiers))
    /\ Len(yields) = Len(tiers)
    /\ \A k \in 1..Len(yields) : yields[k] > 0 => k = Len(tiers)
    /\ pc \in {"scraped", "resolve", "factcheck", "awaiting", "hung", "save", "done"} =>
          Len(records) = yields[Len(yields)] /\ Len(records) > 0

\* C7, its case: the HTML tier gave records after the schema tier gave none,
\* and the run ended without the markdown tier.
C7_StoppedAtHtml == pc = "done" /\ tiers = <<"schema", "html">> /\ yields[2] > 0

\* C8: when all three tiers end with no record the run fails and writes
\* nothing: the resolver, the fact-check and save_records are not reached.
C8_NoRecordsIsFatal ==
    /\ yields = <<0, 0, 0>> =>
          /\ pc = "failed"
          /\ error = "Fallback parser could not identify any APY entries."
          /\ records = <<>> /\ ri = 0 /\ outcomes = <<>>
    /\ pc = "failed" => output = NotWritten /\ ri = 0 /\ outcomes = <<>>

\* C8, its case: the three tiers were tried and none gave a record.
C8_AllTiersEmpty == tiers = TierOrder /\ yields = <<0, 0, 0>> /\ pc = "failed"

\* C9: host_matches_institution is true of "https://sofi.com/save" and
\* "SoFi", false of "https://unrelated.com" and "SoFi", and true whenever the
\* lowercased alphanumeric form of the institution contains the canonical
\* host or is contained in it.
C9_HostMatchIgnoresCase ==
    hpc = "done" =>
        /\ (hurl = Https \o <<"s","o","f","i",".","c","o","m","/","s","a","v","e">> /\ hinst = <<"S","o","F","i">>) => hres
        /\ (hurl = Https \o <<"u","n","r","e","l","a","t","e","d",".","c","o","m">> /\ hinst = <<"S","o","F","i">>) => ~hres
        /\ ( /\ canonicalize(hinst) # <<>> /\ Concat(HostParts(hurl)) # <<>>
             /\ \/ Contains(Concat(HostParts(hurl)), canonicalize(hinst))
                \/ Contains(canonicalize(hinst), Concat(HostParts(hurl))) ) => hres

\* C10: normalise_institution is idempotent: applied to its own result it
\* returns that result.
C10_NormaliseIsIdempotent == npc = "twice" => nout2 = nout

\* the valid external URLs a loaded page holds: what the element of each
\* selector gives (its href, else where a click on it leads) and what each
\* anchor gives
PageOffers(page) ==
    ( {OrElse(extract_url_from_locator(page.locators[k].href), ValidOrNone(page.locators[k].click)) :
          k \in 1..Len(page.locators)}
      \cup {ValidOrNone(Either(extract_redirect_target(page.anchors[k]), page.anchors[k])) :
               k \in 1..Len(page.anchors)} ) \ {None}

\* the external candidate URLs available for a record the resolver worked
\* on: the redirect target of its link and what the page it loaded holds
Offered(visit) ==
    ({ValidOrNone(extract_redirect_target(visit.link))} \ {None}) \cup PageOffers(visit.page)

\* C11: the resolver keeps the best candidate, not the first found: when one
\* of the external candidates available for a record has a host that matches
\* the institution, the link the resolver leaves has such a host; and a link
\* that is a valid external URL is never replaced by a URL whose host does not
\* match.
C11_KeepsBestCandidate ==
    /\ [](\A i \in DOMAIN visits :
            (/\ visits[i].kind \in {"direct", "page"}
             /\ \E u \in Offered(visits[i]) : host_matches_institution(u, records[i].institution))
            => host_matches_institution(records[i].link, records[i].institution))
    /\ [][\A i \in DOMAIN visits :
            (/\ Len(records') = Len(records)
             /\ is_valid_external(records[i].link)
             /\ records'[i].link # records[i].link)
            => host_matches_institution(records'[i].link, records[i].institution)]_vars

\* a round of the resolver that ended without a bank URL: the record had no
\* link on the source site, the page timed out, or no valid external
\* candidate was found
EndedUnresolved(visit) ==
    \/ visit.kind \in {"skipped", "timeout"}
    \/ visit.kind = "page" /\ Offered(visit) = {}

\* C12: when the resolver ends a record without a bank URL (no link on the
\* source site, page timeout, no valid external candidate), the record keeps
\* the link it had, its notes hold "Could not resolve bank URL", and the run
\* goes on: it does not fail once the resolver has started.
C12_UnresolvedIsNoted ==
    /\ \A i \in DOMAIN visits :
          (pc = "resolve" /\ EndedUnresolved(visits[i])) =>
              /\ records[i].link = visits[i].link
              /\ Contains(TextOf(records[i].fact_check_notes), CouldNotResolveNote)
    /\ visits # <<>> => pc # "failed"

\* every record of a list has no verdict and holds the "Skipped: ..." note
AllSkipped(recs) ==
    \A i \in 1..Len(recs) :
        /\ recs[i].double_check = "None"
        /\ Contains(TextOf(recs[i].fact_check_notes), SkippedNote)

\* C13: without an LLM credential the LLM is never configured and never
\* called, and once the fact-check is over every record has no verdict
\* (UNKNOWN) and the fixed "Skipped: ..." note, in the list that is written
\* too.
C13_NoCredentialSkipsAll ==
    ~gemini_key =>
        /\ ~configured
        /\ pc \notin {"awaiting", "hung"}
        /\ \A i \in DOMAIN outcomes : outcomes[i] \in {"none", "skipped"}
        /\ pc \in {"save", "done"} =>
              /\ AllSkipped(records)
              /\ \A i \in DOMAIN outcomes : outcomes[i] = "skipped"
        /\ output.written => AllSkipped(output.list)

\* C13, its case: a run without a credential wrote two records, one of which
\* the resolver had annotated.
C13_SkippedRunWritten ==
    /\ ~gemini_key /\ pc = "done" /\ output.written
    /\ Len(output.list) = 2
    /\ \E i \in DOMAIN visits : visits[i].kind = "timeout"
    /\ AllSkipped(output.list)

\* the (institution, apy) of the records of a list, in order
Keys(recs) == [i \in 1..Len(recs) |-> <<recs[i].institution, recs[i].apy>>]

\* C14: records that fail link resolution or the fact-check are kept: from
\* the end of the extraction on, whatever the resolver and the LLM did, the
\* records are those the extraction returned, in the same order and with the
\* same institution and apy, and so is the list save_records writes.
C14_FailedRecordsAreKept ==
    /\ pc \in {"resolve", "factcheck", "awaiting", "hung", "save", "done"} =>
          Keys(records) = scraped
    /\ output.written => Keys(output.list) = scraped

\* C14, its case: two records were written, the first after a page timeout
\* and an LLM error, the second after the resolver found no candidate.
C14_DegradedRunWritten ==
    /\ output.written /\ Len(output.list) = 2
    /\ visits[1].kind = "timeout" /\ outcomes[1] = "raise"
    /\ visits[2].kind = "page" /\ Offered(visits[2]) = {}
    /\ output.list[1].double_check = "False"
    /\ Contains(TextOf(output.list[2].fact_check_notes), CouldNotResolveNote)

\* the host of a URL as the specification means it: the netloc without user
\* information and port, lowercased
HostName(netloc) ==
    LET ats  == {k \in 1..Len(netloc) : netloc[k] = "@"}
        rest == IF ats = {} THEN netloc
                ELSE Drop(netloc, CHOOSE k \in ats : \A j \in ats : j <= k)
        port == FirstIn(rest, {":"}, 1)
    IN  Lower(IF port = 0 THEN rest ELSE Take(rest, port - 1))

\* a host is a domain or one of its subdomains
OnDomain(host, domain) == host = domain \/ EndsWith(host, <<".">> \o domain)

\* a valid external URL as the specification means it: an absolute http(s)
\* URL whose host is neither on the source site nor on a denylisted domain
IsExternalUrl(url) ==
    /\ Lower(Take(UrlClean(url), SchemeLen(UrlClean(url)))) \in {Http, Http \o <<"s">>}
    /\ HostName(UrlNetloc(url)) # <<>>
    /\ ~OnDomain(HostName(UrlNetloc(url)), NerdwalletCom)
    /\ \A blocked \in HOST_DENYLIST : ~OnDomain(HostName(UrlNetloc(url)), blocked)

\* C15: whenever the resolver changes the link of a record, the new link is
\* a valid external URL: an absolute http(s) URL whose host is not the source
\* site and not a denylisted domain or a subdomain of one, wherever the value
\* came from.
C15_NewLinkIsExternal ==
    \A i \in DOMAIN visits :
        (visits[i].kind \in {"direct", "page"} /\ records[i].link # visits[i].link)
            => IsExternalUrl(records[i].link)

\* get_gemini_summary returned a string after starting the worker, and the
\* string is the worker's text, or the default when the worker left none
ReturnedStoredText == sret = ResultGet(sresult) /\ sret # TimedOutText

\* C16: get_gemini_summary, as the claim states it: after the worker ended or
\* the join elapsed it returns "Gemini summary timed out." exactly when the
\* worker was still running at that point (the join elapsed), and the text of
\* the worker otherwise.
C16_TimedOutIffJoinElapsed ==
    (spc = "returned" /\ skey) =>
        /\ sret # None
        /\ (sret = TimedOutText) <=> (sjoin = "elapsed")
        /\ sjoin = "finished" => ReturnedStoredText

\* C16, amended: get_gemini_summary returns a string once the worker ended or
\* the join elapsed; it returns "Gemini summary timed out." exactly when the
\* worker is still alive when t.is_alive() is asked after the join, which
\* happens only after the join elapsed, and the text of the worker otherwise
\* (also when the worker ended between the join and that test); a caller that
\* joins always returns, also when the LLM call hangs.
C16_TimedOutIffAliveAfterJoin ==
    /\ []((spc = "returned" /\ skey) =>
            /\ sret # None
            /\ (sret = TimedOutText) <=> (salive = "alive")
            /\ salive = "alive" => sjoin = "elapsed"
            /\ salive = "dead" => ReturnedStoredText
            /\ sjoin = "finished" => ReturnedStoredText)
    /\ [](spc = "returned" => sret # None)
    /\ (spc = "joining") ~> (spc = "returned")

\* C16, its case: the LLM call hangs and the caller returned the timeout
\* text while the worker is still in the call.
C16_HungCallReturned ==
    /\ sllm.kind = "hang" /\ wpc = "calling"
    /\ spc = "returned" /\ sret = TimedOutText

====
